---- MODULE Spec2Model ----
(***************************************************************************)
(* Model of the wishlist backend: the wishlist and product route handlers  *)
(* (routes/wishlists.js, routes/products.js) over the two Mongoose         *)
(* collections (models/Wishlist.js, models/Product.js).                    *)
(*                                                                         *)
(* The document store is the pair wishlists / products, functions from the *)
(* ids of the stored documents to the documents.  Every handler is an      *)
(* async function: it runs atomically up to its next await on the store,   *)
(* so a handler is one action per store round trip, and a request slot     *)
(* (reqs[r]) carries the handler's position (pc) and its local variables   *)
(* (the documents it loaded) between two round trips.  The first action of *)
(* a handler is the arrival of the request together with its first read.   *)
(*                                                                         *)
(* An optional value (a field that may be undefined) is a sequence of      *)
(* length 0 or 1.                                                          *)
(***************************************************************************)
EXTENDS Integers, Sequences, FiniteSets, TLC

VARIABLES
    wishlists,  \* the Wishlist collection: stored id -> document
    products,   \* the Product collection: stored id -> document
    images,     \* the image store (Cloudinary): the stored public ids
    ctr,        \* ObjectId generation: the ids drawn of each kind (w, p), and how
                \* many of them by requests (newW, newP)
    reqs,       \* request slot -> the request it serves and the handler's locals
    sockets     \* socket.io: the connected sockets, the rooms each is in, and
                \* the last event relayed with the sockets it was sent to

vars == <<wishlists, products, images, ctr, reqs, sockets>>

----------------------------------------------------------------------------
(* Bounds of the model *)

MaxCreates == 1     \* wishlists created by requests (besides the stored ones)
MaxAdds == 1        \* products added by requests (besides the stored ones)
MaxComments == 1    \* comments a product holds before add-comment is no longer offered
MaxVersion == 3     \* __v of a product before comment and reaction requests are no longer offered

Users == {"u1", "u2", "u3"}
Slots == {"r1", "r2"}
Codes == {"c1", "c2"}
Titles == {"t1", "t2"}
ImageIds == {"img1"}

(* Schema enumerations *)
Roles == {"viewer", "editor", "admin"}
Emojis == {"heart", "thumbsup"}
BadEmoji == "smile"

----------------------------------------------------------------------------
(* Documents *)

NoWishlist ==
    [title |-> "", owner |-> "nobody", collaborators |-> <<>>, products |-> <<>>,
     isPublic |-> FALSE, inviteCode |-> <<>>, totalValue |-> 0]

NoProduct ==
    [wishlist |-> 0, addedBy |-> "nobody", price |-> <<>>, imageUrl |-> <<>>,
     comments |-> <<>>, reactions |-> <<>>, __v |-> 0]

(* A request body: every field optional. *)
NoBody ==
    [title |-> <<>>, isPublic |-> <<>>, nameOk |-> TRUE, price |-> <<>>,
     imageUrl |-> <<>>, text |-> <<>>, emoji |-> <<>>,
     comments |-> <<>>, wishlist |-> <<>>, addedBy |-> <<>>,
     setWishlist |-> <<>>, setAddedBy |-> <<>>]

SocketIds == {"s1", "s2", "s3"}

(* No socket is connected and nothing has been relayed. *)
NoSockets ==
    [connected |-> {}, rooms |-> [s \in SocketIds |-> {}],
     last |-> [event |-> "none", data |-> [wishlistId |-> "none"], from |-> "none",
               to |-> {}]]

Idle ==
    [op |-> "none", actor |-> "nobody", pc |-> "idle", status |-> 0,
     wid |-> 0, pid |-> 0, code |-> <<>>, body |-> NoBody,
     wl |-> NoWishlist, prod |-> NoProduct]

(* The slot of a handler that has sent its response: the request and the
   status stay readable, the locals are gone. *)
Responded(q, st) ==
    [q EXCEPT !.pc = "done", !.status = st, !.wl = NoWishlist, !.prod = NoProduct]

Request(o, a, w, p, c, b) ==
    [Idle EXCEPT !.op = o, !.actor = a, !.wid = w, !.pid = p, !.code = c, !.body = b]

CanStart(r) == reqs[r].pc \in {"idle", "done"}

Range(s) == {s[i] : i \in DOMAIN s}

----------------------------------------------------------------------------
(* The authorization conditions, as each handler writes them *)

IsOwner(wl, a) == wl.owner = a

IsCollaborator(wl, a) == \E i \in DOMAIN wl.collaborators : wl.collaborators[i].user = a

HasRole(wl, a, roles) ==
    \E i \in DOMAIN wl.collaborators :
        wl.collaborators[i].user = a /\ wl.collaborators[i].role \in roles

HasAccess_EditorsOnly(wl, a) ==
    IsOwner(wl, a) \/ HasRole(wl, a, {"editor", "admin"}) \/ wl.isPublic

HasAccess(wl, a) == IsOwner(wl, a) \/ IsCollaborator(wl, a) \/ wl.isPublic

----------------------------------------------------------------------------
(* GET /api/wishlists/:id *)
GetWishlist(r, a, w) ==
    /\ CanStart(r)
    /\ LET q == Request("getWishlist", a, w, 0, <<>>, NoBody)
           st == IF w \notin DOMAIN wishlists THEN 404
                 ELSE IF ~HasAccess(wishlists[w], a) THEN 403
                 ELSE 200
       IN reqs' = [reqs EXCEPT ![r] = Responded(q, st)]
    /\ UNCHANGED <<wishlists, products, images, ctr, sockets>>

(* GET /api/products/wishlist/:wishlistId.  The product query that follows
   the access check only reads. *)
GetProducts(r, a, w) ==
    /\ CanStart(r)
    /\ LET q == Request("getProducts", a, w, 0, <<>>, NoBody)
           st == IF w \notin DOMAIN wishlists THEN 404
                 ELSE IF ~HasAccess(wishlists[w], a) THEN 403
                 ELSE 200
       IN reqs' = [reqs EXCEPT ![r] = Responded(q, st)]
    /\ UNCHANGED <<wishlists, products, images, ctr, sockets>>

----------------------------------------------------------------------------
(* POST /api/products/:id/comments *)

(* commentSchema.text: required, trimmed, at most 500 characters; the texts
   of the model are short, so a text is valid iff it is there. *)
TextValid(t) == t # <<>>

(* Product.findById(id).populate('wishlist'), then the access check and
   product.comments.push(comment) on the loaded document.  A product whose
   wishlist is gone is loaded with wishlist null, and reading wishlist.owner
   throws: the catch block answers 500. *)
AddCommentLoad(r, a, p, b) ==
    /\ CanStart(r)
    /\ p \in DOMAIN products => /\ Len(products[p].comments) < MaxComments
                                /\ products[p].__v < MaxVersion
    /\ LET q == Request("addComment", a, 0, p, <<>>, b)
       IN reqs' = [reqs EXCEPT ![r] =
            IF p \notin DOMAIN products THEN Responded(q, 404)
            ELSE IF products[p].wishlist \notin DOMAIN wishlists THEN Responded(q, 500)
            ELSE IF ~HasAccess(wishlists[products[p].wishlist], a) THEN Responded(q, 403)
            ELSE [q EXCEPT !.pc = "saveComment", !.wid = products[p].wishlist,
                           !.wl = wishlists[products[p].wishlist],
                           !.prod = products[p]]]
    /\ UNCHANGED <<wishlists, products, images, ctr, sockets>>

(* product.save() after comments.push: validation, then an atomic $push of
   the new comment onto the stored array, which increments __v without
   comparing it.  A document that is no longer stored makes save throw
   (DocumentNotFoundError). *)
AddCommentSave(r) ==
    /\ reqs[r].pc = "saveComment"
    /\ LET q == reqs[r]
           ok == TextValid(q.body.text) /\ q.pid \in DOMAIN products
       IN /\ products' =
                IF ok THEN [products EXCEPT ![q.pid].comments =
                               Append(@, [user |-> q.actor, text |-> q.body.text[1]]),
                                            ![q.pid].__v = @ + 1]
                ELSE products
          /\ reqs' = [reqs EXCEPT ![r] = Responded(q, IF ok THEN 201 ELSE 500)]
    /\ UNCHANGED <<wishlists, images, ctr, sockets>>

----------------------------------------------------------------------------
(* POST /api/products/:id/reactions *)

EmojiValid(e) == e # <<>> /\ e[1] \in Emojis

WithoutReactionsOf_KeepAll(reactions, a) == reactions

(* product.reactions.filter(reaction => reaction.user != req.user) *)
WithoutReactionsOf(reactions, a) == SelectSeq(reactions, LAMBDA x : x.user # a)

(* Product.findById(id).populate('wishlist') and the access check. *)
AddReactionLoad(r, a, p, b) ==
    /\ CanStart(r)
    /\ p \in DOMAIN products => products[p].__v < MaxVersion
    /\ LET q == Request("addReaction", a, 0, p, <<>>, b)
       IN reqs' = [reqs EXCEPT ![r] =
            IF p \notin DOMAIN products THEN Responded(q, 404)
            ELSE IF products[p].wishlist \notin DOMAIN wishlists THEN Responded(q, 500)
            ELSE IF ~HasAccess(wishlists[products[p].wishlist], a) THEN Responded(q, 403)
            ELSE [q EXCEPT !.pc = "saveReaction", !.wid = products[p].wishlist,
                           !.wl = wishlists[products[p].wishlist],
                           !.prod = products[p]]]
    /\ UNCHANGED <<wishlists, products, images, ctr, sockets>>

(* On the loaded document: product.reactions = the reactions of the other
   users, product.reactions.push(reaction); then product.save(), which
   validates the pushed reaction (emoji required, one of the enum) and
   writes.  When the assignment changed the array (the actor had a
   reaction), the array is written as a whole under the condition that the
   stored __v is the loaded one, and save throws (VersionError) otherwise;
   when it changed nothing, only the push is written, as an atomic $push.
   Both increment __v. *)
AddReactionSave(r) ==
    /\ reqs[r].pc = "saveReaction"
    /\ LET q == reqs[r]
           kept == WithoutReactionsOf(q.prod.reactions, q.actor)
           asSet == kept # q.prod.reactions
           ok == /\ EmojiValid(q.body.emoji)
                 /\ q.pid \in DOMAIN products
                 /\ asSet => products[q.pid].__v = q.prod.__v
       IN /\ products' =
                IF ok
                THEN [products EXCEPT ![q.pid] =
                        [@ EXCEPT !.reactions =
                                    Append(IF asSet THEN kept ELSE @,
                                           [user |-> q.actor, emoji |-> q.body.emoji[1]]),
                                  !.__v = @ + 1]]
                ELSE products
          /\ reqs' = [reqs EXCEPT ![r] = Responded(q, IF ok THEN 201 ELSE 500)]
    /\ UNCHANGED <<wishlists, images, ctr, sockets>>

----------------------------------------------------------------------------
(* DELETE /api/products/:id/reactions *)

(* Product.findById(id); the route has no access check. *)
RemoveReactionLoad(r, a, p) ==
    /\ CanStart(r)
    /\ p \in DOMAIN products => products[p].__v < MaxVersion
    /\ LET q == Request("removeReaction", a, 0, p, <<>>, NoBody)
       IN reqs' = [reqs EXCEPT ![r] =
            IF p \notin DOMAIN products THEN Responded(q, 404)
            ELSE [q EXCEPT !.pc = "removeSave", !.prod = products[p]]]
    /\ UNCHANGED <<wishlists, products, images, ctr, sockets>>

RemoveReactionSave_Unversioned(r) ==
    /\ reqs[r].pc = "removeSave"
    /\ LET q == reqs[r]
           kept == WithoutReactionsOf(q.prod.reactions, q.actor)
           changed == kept # q.prod.reactions
           ok == changed => q.pid \in DOMAIN products
       IN /\ products' =
                IF changed /\ ok
                THEN [products EXCEPT ![q.pid] = [@ EXCEPT !.reactions = kept, !.__v = @ + 1]]
                ELSE products
          /\ reqs' = [reqs EXCEPT ![r] = Responded(q, IF ok THEN 200 ELSE 500)]
    /\ UNCHANGED <<wishlists, images, ctr, sockets>>

(* On the loaded document: product.reactions = the reactions of the other
   users; then product.save().  When the assignment changed nothing there
   is nothing to write; otherwise the array is written as a whole under the
   condition that the stored __v is the loaded one (VersionError
   otherwise), and __v is incremented. *)
RemoveReactionSave(r) ==
    /\ reqs[r].pc = "removeSave"
    /\ LET q == reqs[r]
           kept == WithoutReactionsOf(q.prod.reactions, q.actor)
           changed == kept # q.prod.reactions
           ok == changed => /\ q.pid \in DOMAIN products
                            /\ products[q.pid].__v = q.prod.__v
       IN /\ products' =
                IF changed /\ ok
                THEN [products EXCEPT ![q.pid] = [@ EXCEPT !.reactions = kept, !.__v = @ + 1]]
                ELSE products
          /\ reqs' = [reqs EXCEPT ![r] = Responded(q, IF ok THEN 200 ELSE 500)]
    /\ UNCHANGED <<wishlists, images, ctr, sockets>>

----------------------------------------------------------------------------
(* PUT /api/wishlists/:id *)

CanMutateWishlist_EditorToo(wl, a) == IsOwner(wl, a) \/ HasRole(wl, a, {"editor", "admin"})

CanMutateWishlist(wl, a) == IsOwner(wl, a) \/ HasRole(wl, a, {"admin"})

CodeTaken_NoIndex(w, c) == FALSE

(* The inviteCode index is unique and sparse: a write that would leave two
   stored wishlists with the same code is refused by the store. *)
CodeTaken(w, c) ==
    c # <<>> /\ \E x \in DOMAIN wishlists \ {w} : wishlists[x].inviteCode = c

(* Wishlist.findById, the owner-or-admin check, and the building of the
   updates object from the body and the loaded document: title when truthy,
   isPublic when given, and a fresh invite code (generateInviteCode draws it
   at random) when the list is made public and the loaded document has
   none.  The code drawn is kept in the slot's code field. *)
UpdateWishlistLoad(r, a, w, b, c) ==
    /\ CanStart(r)
    /\ LET q == Request("updateWishlist", a, w, 0, <<>>, b)
       IN reqs' = [reqs EXCEPT ![r] =
            IF w \notin DOMAIN wishlists THEN Responded(q, 404)
            ELSE IF ~CanMutateWishlist(wishlists[w], a) THEN Responded(q, 403)
            ELSE [q EXCEPT !.pc = "update", !.wl = wishlists[w],
                           !.code = IF b.isPublic = <<TRUE>> /\ wishlists[w].inviteCode = <<>>
                                    THEN <<c>> ELSE <<>>]]
    /\ UNCHANGED <<wishlists, products, images, ctr, sockets>>

(* Wishlist.findByIdAndUpdate(id, updates): one atomic update of the stored
   document; when the document is gone it returns null and the handler
   answers 200 with it. *)
UpdateWishlistApply(r) ==
    /\ reqs[r].pc = "update"
    /\ LET q == reqs[r]
           gone == q.wid \notin DOMAIN wishlists
           dup == ~gone /\ CodeTaken(q.wid, q.code)
       IN /\ wishlists' =
                IF gone \/ dup THEN wishlists
                ELSE [wishlists EXCEPT ![q.wid] =
                        [@ EXCEPT !.title = IF q.body.title # <<>> THEN q.body.title[1] ELSE @,
                                  !.isPublic = IF q.body.isPublic # <<>> THEN q.body.isPublic[1] ELSE @,
                                  !.inviteCode = IF q.code # <<>> THEN q.code ELSE @]]
          /\ reqs' = [reqs EXCEPT ![r] = Responded(q, IF dup THEN 500 ELSE 200)]
    /\ UNCHANGED <<products, images, ctr, sockets>>

----------------------------------------------------------------------------
(* POST /api/wishlists *)

(* new Wishlist({... owner: req.user._id, isPublic: isPublic || false}), an
   invite code (c, drawn at random) when the body asks for a public list,
   and wishlist.save(): validation (title required), then the insert, which
   the unique index refuses when a stored wishlist holds the same code. *)
CreateWishlist(r, a, b, c) ==
    /\ CanStart(r)
    /\ ctr.newW < MaxCreates
    /\ LET q == Request("createWishlist", a, ctr.w + 1, 0, <<>>, b)
           pub == b.isPublic = <<TRUE>>
           code == IF pub THEN <<c>> ELSE <<>>
           ok == b.title # <<>> /\ ~CodeTaken(ctr.w + 1, code)
       IN IF ok
          THEN /\ wishlists' = ((ctr.w + 1) :> [NoWishlist EXCEPT !.title = b.title[1],
                                                   !.owner = a, !.isPublic = pub,
                                                   !.inviteCode = code])
                                  @@ wishlists
               /\ ctr' = [ctr EXCEPT !.w = @ + 1, !.newW = @ + 1]
               /\ reqs' = [reqs EXCEPT ![r] = Responded([q EXCEPT !.code = code], 201)]
          ELSE /\ reqs' = [reqs EXCEPT ![r] = Responded([q EXCEPT !.code = code], 500)]
               /\ UNCHANGED <<wishlists, ctr>>
    /\ UNCHANGED <<products, images, sockets>>

----------------------------------------------------------------------------
(* DELETE /api/wishlists/:id *)

DeleteWishlistLoad_AdminToo(r, a, w) ==
    /\ CanStart(r)
    /\ LET q == Request("deleteWishlist", a, w, 0, <<>>, NoBody)
       IN reqs' = [reqs EXCEPT ![r] =
            IF w \notin DOMAIN wishlists THEN Responded(q, 404)
            ELSE IF ~(IsOwner(wishlists[w], a) \/ HasRole(wishlists[w], a, {"admin"}))
                 THEN Responded(q, 403)
            ELSE [q EXCEPT !.pc = "deleteProducts", !.wl = wishlists[w]]]
    /\ UNCHANGED <<wishlists, products, images, ctr, sockets>>

(* Wishlist.findById and the owner check. *)
DeleteWishlistLoad(r, a, w) ==
    /\ CanStart(r)
    /\ LET q == Request("deleteWishlist", a, w, 0, <<>>, NoBody)
       IN reqs' = [reqs EXCEPT ![r] =
            IF w \notin DOMAIN wishlists THEN Responded(q, 404)
            ELSE IF ~IsOwner(wishlists[w], a) THEN Responded(q, 403)
            ELSE [q EXCEPT !.pc = "deleteProducts", !.wl = wishlists[w]]]
    /\ UNCHANGED <<wishlists, products, images, ctr, sockets>>

(* Product.deleteMany({ wishlist: req.params.id }) *)
DeleteWishlistProducts(r) ==
    /\ reqs[r].pc = "deleteProducts"
    /\ products' = [x \in {y \in DOMAIN products : products[y].wishlist # reqs[r].wid}
                        |-> products[x]]
    /\ reqs' = [reqs EXCEPT ![r].pc = "deleteWishlist"]
    /\ UNCHANGED <<wishlists, images, ctr, sockets>>

(* Wishlist.findByIdAndDelete(req.params.id) *)
DeleteWishlistRemove(r) ==
    /\ reqs[r].pc = "deleteWishlist"
    /\ wishlists' = [x \in DOMAIN wishlists \ {reqs[r].wid} |-> wishlists[x]]
    /\ reqs' = [reqs EXCEPT ![r] = Responded(reqs[r], 200)]
    /\ UNCHANGED <<products, images, ctr, sockets>>

----------------------------------------------------------------------------
(* POST /api/wishlists/join/:inviteCode *)

JoinLoad_OwnerCheckOnly(r, a, c) ==
    /\ CanStart(r)
    /\ LET q == Request("join", a, 0, 0, <<c>>, NoBody)
           found == {w \in DOMAIN wishlists : wishlists[w].inviteCode = <<c>>}
       IN IF found = {}
          THEN reqs' = [reqs EXCEPT ![r] = Responded(q, 404)]
          ELSE \E w \in found :
                reqs' = [reqs EXCEPT ![r] =
                    IF IsOwner(wishlists[w], a)
                    THEN Responded([q EXCEPT !.wid = w], 400)
                    ELSE [q EXCEPT !.pc = "joinSave", !.wid = w,
                                   !.wl = [wishlists[w] EXCEPT !.collaborators =
                                            Append(@, [user |-> a, role |-> "editor"])]]]
    /\ UNCHANGED <<wishlists, products, images, ctr, sockets>>

(* Wishlist.findOne({ inviteCode }), the already-a-member check, and
   wishlist.collaborators.push({user, role: 'editor'}) on the loaded
   document. *)
JoinLoad(r, a, c) ==
    /\ CanStart(r)
    /\ LET q == Request("join", a, 0, 0, <<c>>, NoBody)
           found == {w \in DOMAIN wishlists : wishlists[w].inviteCode = <<c>>}
       IN IF found = {}
          THEN reqs' = [reqs EXCEPT ![r] = Responded(q, 404)]
          ELSE \E w \in found :
                reqs' = [reqs EXCEPT ![r] =
                    IF IsCollaborator(wishlists[w], a) \/ IsOwner(wishlists[w], a)
                    THEN Responded([q EXCEPT !.wid = w], 400)
                    ELSE [q EXCEPT !.pc = "joinSave", !.wid = w,
                                   !.wl = [wishlists[w] EXCEPT !.collaborators =
                                            Append(@, [user |-> a, role |-> "editor"])]]]
    /\ UNCHANGED <<wishlists, products, images, ctr, sockets>>

JoinSave_AsViewer(r) ==
    /\ reqs[r].pc = "joinSave"
    /\ LET q == reqs[r]
           gone == q.wid \notin DOMAIN wishlists
       IN /\ wishlists' =
                IF gone THEN wishlists
                ELSE [wishlists EXCEPT ![q.wid].collaborators =
                        Append(@, [user |-> q.actor, role |-> "viewer"])]
          /\ reqs' = [reqs EXCEPT ![r] = Responded(q, IF gone THEN 500 ELSE 200)]
    /\ UNCHANGED <<products, images, ctr, sockets>>

(* wishlist.save(): the pushed entry goes onto the stored collaborators
   ($push); save throws when the wishlist is no longer stored. *)
JoinSave(r) ==
    /\ reqs[r].pc = "joinSave"
    /\ LET q == reqs[r]
           gone == q.wid \notin DOMAIN wishlists
       IN /\ wishlists' =
                IF gone THEN wishlists
                ELSE [wishlists EXCEPT ![q.wid].collaborators =
                        Append(@, [user |-> q.actor, role |-> "editor"])]
          /\ reqs' = [reqs EXCEPT ![r] = Responded(q, IF gone THEN 500 ELSE 200)]
    /\ UNCHANGED <<products, images, ctr, sockets>>

----------------------------------------------------------------------------
(* POST /api/wishlists/:id/invite *)

(* Wishlist.findById, the owner-or-admin check and generateInviteCode() on
   the loaded document (c is the code drawn). *)
GenerateInviteLoad(r, a, w, c) ==
    /\ CanStart(r)
    /\ LET q == Request("generateInvite", a, w, 0, <<>>, NoBody)
       IN reqs' = [reqs EXCEPT ![r] =
            IF w \notin DOMAIN wishlists THEN Responded(q, 404)
            ELSE IF ~(IsOwner(wishlists[w], a) \/ HasRole(wishlists[w], a, {"admin"}))
                 THEN Responded(q, 403)
            ELSE [q EXCEPT !.pc = "inviteSave", !.code = <<c>>,
                           !.wl = [wishlists[w] EXCEPT !.inviteCode = <<c>>]]]
    /\ UNCHANGED <<wishlists, products, images, ctr, sockets>>

(* wishlist.save(): the new code is set on the stored document, unless the
   unique index refuses it or the wishlist is gone (both throw). *)
GenerateInviteSave(r) ==
    /\ reqs[r].pc = "inviteSave"
    /\ LET q == reqs[r]
           fails == q.wid \notin DOMAIN wishlists \/ CodeTaken(q.wid, q.code)
       IN /\ wishlists' =
                IF fails THEN wishlists
                ELSE [wishlists EXCEPT ![q.wid].inviteCode = q.code]
          /\ reqs' = [reqs EXCEPT ![r] = Responded(q, IF fails THEN 500 ELSE 200)]
    /\ UNCHANGED <<products, images, ctr, sockets>>

----------------------------------------------------------------------------
(* socket.io: io.on('connection') and the handlers it registers *)

WishlistRooms == {"w1"}
Events == {"product-added", "product-updated", "product-deleted", "comment-added",
           "reaction-added"}

(* A socket connects; socket.io puts every socket in the room named by its
   own id. *)
Connection(s) ==
    /\ s \notin sockets.connected
    /\ sockets' = [sockets EXCEPT !.connected = @ \cup {s}, !.rooms[s] = {s}]
    /\ UNCHANGED <<wishlists, products, images, ctr, reqs>>

(* A socket disconnects and leaves its rooms. *)
Disconnect(s) ==
    /\ s \in sockets.connected
    /\ sockets' = [sockets EXCEPT !.connected = @ \ {s}, !.rooms[s] = {}]
    /\ UNCHANGED <<wishlists, products, images, ctr, reqs>>

(* socket.on('join-wishlist'): socket.join(wishlistId) *)
JoinWishlist(s, w) ==
    /\ s \in sockets.connected
    /\ sockets' = [sockets EXCEPT !.rooms[s] = @ \cup {w}]
    /\ UNCHANGED <<wishlists, products, images, ctr, reqs>>

(* socket.on('leave-wishlist'): socket.leave(wishlistId) *)
LeaveWishlist(s, w) ==
    /\ s \in sockets.connected
    /\ sockets' = [sockets EXCEPT !.rooms[s] = @ \ {w}]
    /\ UNCHANGED <<wishlists, products, images, ctr, reqs>>

(* The five relaying handlers, socket.on(ev, data =>
   socket.to(data.wishlistId).emit(ev, data)): the event goes, with the
   same data, to the sockets in the room data.wishlistId other than the
   sender. *)
Relay(s, ev, d) ==
    /\ s \in sockets.connected
    /\ sockets' = [sockets EXCEPT !.last =
            [event |-> ev, data |-> d, from |-> s,
             to |-> {t \in sockets.connected \ {s} :
                        d.wishlistId \in sockets.rooms[t]}]]
    /\ UNCHANGED <<wishlists, products, images, ctr, reqs>>

----------------------------------------------------------------------------
(* wishlistSchema.methods.calculateTotalValue: populate('products') loads
   the stored products the list names (an id with no stored product is
   dropped), and the total is the sum of (product.price || 0). *)

PriceOrZero(price) == IF price = <<>> THEN 0 ELSE price[1]

RECURSIVE CalculateTotalValue(_)
CalculateTotalValue(ids) ==
    IF ids = <<>> THEN 0
    ELSE (IF Head(ids) \in DOMAIN products
          THEN PriceOrZero(products[Head(ids)].price) ELSE 0)
         + CalculateTotalValue(Tail(ids))

(* productSchema: name required, price min 0. *)
PriceValid(price) == price = <<>> \/ price[1] >= 0

----------------------------------------------------------------------------
(* POST /api/products *)

CanAdd_AnyCollaborator(wl, a) == IsOwner(wl, a) \/ IsCollaborator(wl, a)

CanAdd(wl, a) == IsOwner(wl, a) \/ HasRole(wl, a, {"editor", "admin"})

(* Wishlist.findById(wishlistId) and the check. *)
AddProductLoad(r, a, w, b) ==
    /\ CanStart(r)
    /\ ctr.newP < MaxAdds
    /\ LET q == Request("addProduct", a, w, 0, <<>>, b)
       IN reqs' = [reqs EXCEPT ![r] =
            IF w \notin DOMAIN wishlists THEN Responded(q, 404)
            ELSE IF ~CanAdd(wishlists[w], a) THEN Responded(q, 403)
            ELSE [q EXCEPT !.pc = "insertProduct", !.wl = wishlists[w]]]
    /\ UNCHANGED <<wishlists, products, images, ctr, sockets>>

(* product.save(): validation, then the insert of the new document under a
   fresh id; then wishlist.products.push(product._id) on the loaded
   wishlist. *)
AddProductInsert(r) ==
    /\ reqs[r].pc = "insertProduct"
    /\ LET q == reqs[r]
           ok == q.body.nameOk /\ PriceValid(q.body.price)
           id == ctr.p + 1
       IN IF ok
          THEN /\ products' = (id :> [NoProduct EXCEPT !.wishlist = q.wid,
                                          !.addedBy = q.actor,
                                          !.price = q.body.price,
                                          !.imageUrl = q.body.imageUrl])
                                @@ products
               /\ ctr' = [ctr EXCEPT !.p = id, !.newP = @ + 1]
               /\ reqs' = [reqs EXCEPT ![r] =
                    [q EXCEPT !.pc = "addTotal", !.pid = id,
                              !.wl.products = Append(@, id)]]
          ELSE /\ reqs' = [reqs EXCEPT ![r] = Responded(q, 500)]
               /\ UNCHANGED <<products, ctr>>
    /\ UNCHANGED <<wishlists, images, sockets>>

AddProductTotal_BeforePush(r) ==
    /\ reqs[r].pc = "addTotal"
    /\ reqs' = [reqs EXCEPT ![r].pc = "addSave",
                            ![r].wl.totalValue =
                                CalculateTotalValue(SelectSeq(reqs[r].wl.products,
                                                              LAMBDA x : x # reqs[r].pid))]
    /\ UNCHANGED <<wishlists, products, images, ctr, sockets>>

(* wishlist.calculateTotalValue() on the loaded wishlist. *)
AddProductTotal(r) ==
    /\ reqs[r].pc = "addTotal"
    /\ reqs' = [reqs EXCEPT ![r].pc = "addSave",
                            ![r].wl.totalValue = CalculateTotalValue(reqs[r].wl.products)]
    /\ UNCHANGED <<wishlists, products, images, ctr, sockets>>

(* wishlist.save(): the pushed id goes onto the stored list ($push) and the
   total is set; save throws when the wishlist is no longer stored. *)
AddProductSave(r) ==
    /\ reqs[r].pc = "addSave"
    /\ LET q == reqs[r]
           gone == q.wid \notin DOMAIN wishlists
       IN /\ wishlists' =
                IF gone THEN wishlists
                ELSE [wishlists EXCEPT ![q.wid].products = Append(@, q.pid),
                                       ![q.wid].totalValue = q.wl.totalValue]
          /\ reqs' = [reqs EXCEPT ![r] = Responded(q, IF gone THEN 500 ELSE 201)]
    /\ UNCHANGED <<products, images, ctr, sockets>>

----------------------------------------------------------------------------
(* PUT /api/products/:id *)

CanEdit(wl, prod, a) ==
    IsOwner(wl, a) \/ prod.addedBy = a \/ HasRole(wl, a, {"editor", "admin"})

(* Product.findById(id).populate('wishlist') and the check. *)
UpdateProductLoad(r, a, p, b) ==
    /\ CanStart(r)
    /\ LET q == Request("updateProduct", a, 0, p, <<>>, b)
       IN reqs' = [reqs EXCEPT ![r] =
            IF p \notin DOMAIN products THEN Responded(q, 404)
            ELSE IF products[p].wishlist \notin DOMAIN wishlists THEN Responded(q, 500)
            ELSE IF ~CanEdit(wishlists[products[p].wishlist], products[p], a)
                 THEN Responded(q, 403)
            ELSE [q EXCEPT !.pc = "updateProduct", !.wid = products[p].wishlist,
                           !.wl = wishlists[products[p].wishlist],
                           !.prod = products[p]]]
    /\ UNCHANGED <<wishlists, products, images, ctr, sockets>>

(* updates = req.body; delete updates.wishlist; delete updates.addedBy:
   the two top-level keys are dropped, every other key stays, a "$set" key
   with its own wishlist and addedBy keys (setWishlist, setAddedBy)
   included. *)
Updates(b) == [b EXCEPT !.wishlist = <<>>, !.addedBy = <<>>]

(* Product.findByIdAndUpdate(id, updates, {runValidators: true}): the keys
   of updates, top-level or under "$set", are validated and set on the
   stored product; a product that is gone makes it return null without an
   error. *)
UpdateProductApply(r) ==
    /\ reqs[r].pc = "updateProduct"
    /\ LET q == reqs[r]
           u == Updates(q.body)
           ok == PriceValid(u.price)
       IN /\ products' =
                IF ok /\ q.pid \in DOMAIN products
                THEN [products EXCEPT ![q.pid] =
                        [@ EXCEPT !.price = IF u.price # <<>> THEN u.price ELSE @,
                                  !.comments = IF u.comments # <<>> THEN u.comments[1] ELSE @,
                                  !.wishlist = IF u.wishlist # <<>> THEN u.wishlist[1]
                                               ELSE IF u.setWishlist # <<>> THEN u.setWishlist[1]
                                               ELSE @,
                                  !.addedBy = IF u.addedBy # <<>> THEN u.addedBy[1]
                                              ELSE IF u.setAddedBy # <<>> THEN u.setAddedBy[1]
                                              ELSE @]]
                ELSE products
          /\ reqs' = [reqs EXCEPT ![r] =
                IF ok THEN [q EXCEPT !.pc = "updateTotal"] ELSE Responded(q, 500)]
    /\ UNCHANGED <<wishlists, images, ctr, sockets>>

UpdateProductTotal(r) ==
    /\ reqs[r].pc = "updateTotal"
    /\ reqs' = [reqs EXCEPT ![r].pc = "updateSave",
                            ![r].wl.totalValue = CalculateTotalValue(reqs[r].wl.products)]
    /\ UNCHANGED <<wishlists, products, images, ctr, sockets>>

(* wishlist.save(): the total is the one modified path. *)
UpdateProductSave(r) ==
    /\ reqs[r].pc = "updateSave"
    /\ LET q == reqs[r]
           gone == q.wid \notin DOMAIN wishlists
       IN /\ wishlists' =
                IF gone THEN wishlists
                ELSE [wishlists EXCEPT ![q.wid].totalValue = q.wl.totalValue]
          /\ reqs' = [reqs EXCEPT ![r] = Responded(q, IF gone THEN 500 ELSE 200)]
    /\ UNCHANGED <<products, images, ctr, sockets>>

----------------------------------------------------------------------------
(* DELETE /api/products/:id *)

CanDelete_EditorToo(wl, prod, a) ==
    IsOwner(wl, a) \/ prod.addedBy = a \/ HasRole(wl, a, {"editor", "admin"})

CanDelete(wl, prod, a) ==
    IsOwner(wl, a) \/ prod.addedBy = a \/ HasRole(wl, a, {"admin"})

DeleteProductLoad_ImageFirst(r, a, p) ==
    /\ CanStart(r)
    /\ LET q == Request("deleteProduct", a, 0, p, <<>>, NoBody)
       IN reqs' = [reqs EXCEPT ![r] =
            IF p \notin DOMAIN products THEN Responded(q, 404)
            ELSE IF products[p].wishlist \notin DOMAIN wishlists THEN Responded(q, 500)
            ELSE IF ~CanDelete(wishlists[products[p].wishlist], products[p], a)
                 THEN Responded(q, 403)
            ELSE [q EXCEPT !.pc = "deleteImage", !.wid = products[p].wishlist,
                           !.wl = wishlists[products[p].wishlist],
                           !.prod = products[p]]]
    /\ images' = IF p \in DOMAIN products
                 THEN images \ Range(products[p].imageUrl) ELSE images
    /\ UNCHANGED <<wishlists, products, ctr, sockets>>

(* Product.findById(id).populate('wishlist') and the check. *)
DeleteProductLoad(r, a, p) ==
    /\ CanStart(r)
    /\ LET q == Request("deleteProduct", a, 0, p, <<>>, NoBody)
       IN reqs' = [reqs EXCEPT ![r] =
            IF p \notin DOMAIN products THEN Responded(q, 404)
            ELSE IF products[p].wishlist \notin DOMAIN wishlists THEN Responded(q, 500)
            ELSE IF ~CanDelete(wishlists[products[p].wishlist], products[p], a)
                 THEN Responded(q, 403)
            ELSE [q EXCEPT !.pc = "deleteImage", !.wid = products[p].wishlist,
                           !.wl = wishlists[products[p].wishlist],
                           !.prod = products[p]]]
    /\ UNCHANGED <<wishlists, products, images, ctr, sockets>>

(* deleteImage(publicId) when the product has a stored image: the image
   store removes it, or the call throws and the handler goes on (ok says
   which); then wishlist.products.pull(product._id) on the loaded
   wishlist. *)
DeleteProductImage(r, ok) ==
    /\ reqs[r].pc = "deleteImage"
    /\ LET q == reqs[r]
       IN /\ images' = IF q.prod.imageUrl # <<>> /\ ok
                       THEN images \ {q.prod.imageUrl[1]} ELSE images
          /\ reqs' = [reqs EXCEPT ![r] =
                [q EXCEPT !.pc = "deleteTotal",
                          !.wl.products = SelectSeq(@, LAMBDA x : x # q.pid)]]
    /\ UNCHANGED <<wishlists, products, ctr, sockets>>

DeleteProductTotal(r) ==
    /\ reqs[r].pc = "deleteTotal"
    /\ reqs' = [reqs EXCEPT ![r].pc = "deleteSave",
                            ![r].wl.totalValue = CalculateTotalValue(reqs[r].wl.products)]
    /\ UNCHANGED <<wishlists, products, images, ctr, sockets>>

(* wishlist.save(): the id is pulled from the stored list ($pull) and the
   total is set; save throws when the wishlist is no longer stored, and the
   product is then not deleted. *)
DeleteProductSave(r) ==
    /\ reqs[r].pc = "deleteSave"
    /\ LET q == reqs[r]
           gone == q.wid \notin DOMAIN wishlists
       IN /\ wishlists' =
                IF gone THEN wishlists
                ELSE [wishlists EXCEPT
                        ![q.wid].products = SelectSeq(@, LAMBDA x : x # q.pid),
                        ![q.wid].totalValue = q.wl.totalValue]
          /\ reqs' = [reqs EXCEPT ![r] =
                IF gone THEN Responded(q, 500) ELSE [q EXCEPT !.pc = "deleteRemove"]]
    /\ UNCHANGED <<products, images, ctr, sockets>>

(* Product.findByIdAndDelete(id). *)
DeleteProductRemove(r) ==
    /\ reqs[r].pc = "deleteRemove"
    /\ products' = [x \in DOMAIN products \ {reqs[r].pid} |-> products[x]]
    /\ reqs' = [reqs EXCEPT ![r] = Responded(reqs[r], 200)]
    /\ UNCHANGED <<wishlists, images, ctr, sockets>>

----------------------------------------------------------------------------
(* The stored state the runs start from: one wishlist of owner u1, with no
   collaborator or with the collaborator u2 in some role, and one priced
   product with a stored image, added by any of the users (u3 is no
   member).  The schema allows each of these documents; the roles viewer
   and admin and a creator who is no member are set in the store directly,
   no route assigns them. *)
Collaborator(role) == <<[user |-> "u2", role |-> role]>>

SeedWith(collaborators, creator, pub, reactions) ==
    /\ wishlists = (1 :> [title |-> "t1", owner |-> "u1",
                          collaborators |-> collaborators,
                          products |-> <<1>>, isPublic |-> pub,
                          inviteCode |-> <<>>, totalValue |-> 10])
    /\ products = (1 :> [wishlist |-> 1, addedBy |-> creator, price |-> <<10>>,
                         imageUrl |-> <<"img1">>, comments |-> <<>>,
                         reactions |-> reactions, __v |-> 0])
    /\ images = {"img1"}
    /\ ctr = [w |-> 1, p |-> 1, newW |-> 0, newP |-> 0]
    /\ reqs = [r \in Slots |-> Idle]
    /\ sockets = NoSockets

Seed(collaborators, creator, pub) == SeedWith(collaborators, creator, pub, <<>>)

----------------------------------------------------------------------------
(* Spec: reading, commenting and reacting, the four routes behind the view
   check, one request at a time, on a wishlist that is public or private
   and whose collaborator u2 has any of the roles. *)

Init == \E role \in Roles, pub \in BOOLEAN : Seed(Collaborator(role), "u1", pub)

CommentBodies == {[NoBody EXCEPT !.text = t] : t \in {<<>>, <<"hi">>}}
ReactionBodies == {[NoBody EXCEPT !.emoji = <<e>>] : e \in {"heart", BadEmoji}}

(* The ids a request can name: those drawn so far and one never drawn. *)
KnownW == 1..(ctr.w + 1)
KnownP == 1..(ctr.p + 1)

Next ==
    \/ \E a \in Users, w \in KnownW : GetWishlist("r1", a, w)
    \/ \E a \in Users, w \in KnownW : GetProducts("r1", a, w)
    \/ \E a \in Users, p \in KnownP, b \in CommentBodies : AddCommentLoad("r1", a, p, b)
    \/ AddCommentSave("r1")
    \/ \E a \in Users, p \in KnownP, b \in ReactionBodies : AddReactionLoad("r1", a, p, b)
    \/ AddReactionSave("r1")

Spec == Init /\ [][Next]_vars

----------------------------------------------------------------------------
(* SpecProduct: adding, editing and deleting products, one request at a
   time, for every role of the collaborator u2, every creator of the stored
   product, and a public or private wishlist. *)

InitProduct ==
    \E role \in Roles, creator \in Users, pub \in BOOLEAN :
        Seed(Collaborator(role), creator, pub)

AddBodies == {[NoBody EXCEPT !.price = <<10>>], [NoBody EXCEPT !.nameOk = FALSE]}
EditBodies == {[NoBody EXCEPT !.price = <<25>>]}

NextProduct ==
    \/ \E a \in Users, w \in KnownW, b \in AddBodies : AddProductLoad("r1", a, w, b)
    \/ AddProductInsert("r1")
    \/ AddProductTotal("r1")
    \/ AddProductSave("r1")
    \/ \E a \in Users, p \in KnownP, b \in EditBodies : UpdateProductLoad("r1", a, p, b)
    \/ UpdateProductApply("r1")
    \/ UpdateProductTotal("r1")
    \/ UpdateProductSave("r1")
    \/ \E a \in Users, p \in KnownP : DeleteProductLoad("r1", a, p)
    \/ \E ok \in BOOLEAN : DeleteProductImage("r1", ok)
    \/ DeleteProductTotal("r1")
    \/ DeleteProductSave("r1")
    \/ DeleteProductRemove("r1")

SpecProduct == InitProduct /\ [][NextProduct]_vars

----------------------------------------------------------------------------
(* SpecTotal: the same three routes, one request at a time, on a wishlist
   of two stored products, one priced 10 and one without a price, with
   priced, unpriced and invalid bodies. *)

InitTotal ==
    /\ wishlists = (1 :> [title |-> "t1", owner |-> "u1",
                          collaborators |-> <<[user |-> "u2", role |-> "editor"]>>,
                          products |-> <<1, 2>>, isPublic |-> FALSE,
                          inviteCode |-> <<>>, totalValue |-> 10])
    /\ products = (1 :> [NoProduct EXCEPT !.wishlist = 1, !.addedBy = "u1", !.price = <<10>>])
               @@ (2 :> [NoProduct EXCEPT !.wishlist = 1, !.addedBy = "u2"])
    /\ images = {}
    /\ ctr = [w |-> 1, p |-> 2, newW |-> 0, newP |-> 0]
    /\ reqs = [r \in Slots |-> Idle]
    /\ sockets = NoSockets

TotalAddBodies ==
    {[NoBody EXCEPT !.price = x] : x \in {<<>>, <<0>>, <<25>>, <<-5>>}}
        \cup {[NoBody EXCEPT !.nameOk = FALSE]}
TotalEditBodies == {[NoBody EXCEPT !.price = x] : x \in {<<>>, <<10>>, <<-5>>}}

NextTotal ==
    \/ \E a \in Users, w \in KnownW, b \in TotalAddBodies : AddProductLoad("r1", a, w, b)
    \/ AddProductInsert("r1")
    \/ AddProductTotal("r1")
    \/ AddProductSave("r1")
    \/ \E a \in Users, p \in KnownP, b \in TotalEditBodies : UpdateProductLoad("r1", a, p, b)
    \/ UpdateProductApply("r1")
    \/ UpdateProductTotal("r1")
    \/ UpdateProductSave("r1")
    \/ \E a \in Users, p \in KnownP : DeleteProductLoad("r1", a, p)
    \/ \E ok \in BOOLEAN : DeleteProductImage("r1", ok)
    \/ DeleteProductTotal("r1")
    \/ DeleteProductSave("r1")
    \/ DeleteProductRemove("r1")

SpecTotal == InitTotal /\ [][NextTotal]_vars

----------------------------------------------------------------------------
(* SpecWishlist: updating, deleting, inviting and joining, one request at
   a time, on a wishlist without collaborators or with the collaborator u2
   in any role. *)

InitWishlist ==
    \E collaborators \in {<<>>} \cup {Collaborator(role) : role \in Roles} :
        Seed(collaborators, "u1", FALSE)

WishlistBodies ==
    {[NoBody EXCEPT !.isPublic = <<v>>] : v \in BOOLEAN} \cup {[NoBody EXCEPT !.title = <<"t2">>]}

NextWishlist ==
    \/ \E a \in Users, w \in KnownW, b \in WishlistBodies, c \in Codes :
            UpdateWishlistLoad("r1", a, w, b, c)
    \/ UpdateWishlistApply("r1")
    \/ \E a \in Users, w \in KnownW : DeleteWishlistLoad("r1", a, w)
    \/ DeleteWishlistProducts("r1")
    \/ DeleteWishlistRemove("r1")
    \/ \E a \in Users, c \in Codes : JoinLoad("r1", a, c)
    \/ JoinSave("r1")
    \/ \E a \in Users, w \in KnownW, c \in Codes : GenerateInviteLoad("r1", a, w, c)
    \/ GenerateInviteSave("r1")

SpecWishlist == InitWishlist /\ [][NextWishlist]_vars

----------------------------------------------------------------------------
(* SpecCodes: two requests in flight at a time, by the owners, that draw
   invite codes: create, PUT with isPublic, generate-invite.  Wishlist 1
   (of u1) is public and holds code c1, wishlist 2 (of u2) is private and
   holds none; codes are drawn from two values so that draws collide. *)

InitCodes ==
    /\ wishlists = (1 :> [NoWishlist EXCEPT !.title = "t1", !.owner = "u1",
                                            !.isPublic = TRUE, !.inviteCode = <<"c1">>])
                   @@ (2 :> [NoWishlist EXCEPT !.title = "t1", !.owner = "u2"])
    /\ products = <<>>
    /\ images = {}
    /\ ctr = [w |-> 2, p |-> 0, newW |-> 0, newP |-> 0]
    /\ reqs = [r \in Slots |-> Idle]
    /\ sockets = NoSockets

CodeBodies == {[NoBody EXCEPT !.title = <<"t1">>, !.isPublic = <<x>>] : x \in BOOLEAN}

NextCodes ==
    \E r \in Slots :
        \/ \E b \in CodeBodies, c \in Codes : CreateWishlist(r, "u3", b, c)
        \/ \E w \in DOMAIN wishlists, b \in CodeBodies, c \in Codes :
                UpdateWishlistLoad(r, wishlists[w].owner, w, b, c)
        \/ UpdateWishlistApply(r)
        \/ \E w \in DOMAIN wishlists, c \in Codes :
                GenerateInviteLoad(r, wishlists[w].owner, w, c)
        \/ GenerateInviteSave(r)

SpecCodes == InitCodes /\ [][NextCodes]_vars

----------------------------------------------------------------------------
(* SpecGuards: every route behind an authorization check, one request at a
   time, on a private wishlist whose collaborator u2 has any of the roles.
   The requests come from u2 and from the non-member u3; the owner u1
   sends only the wishlist deletion, which no one else may. *)

InitGuards == \E role \in Roles : Seed(Collaborator(role), "u1", FALSE)

GuardActors == {"u2", "u3"}

GuardBodies ==
    {[NoBody EXCEPT !.title = <<"t2">>, !.price = <<25>>, !.text = <<"hi">>,
                    !.emoji = <<"heart">>]}

NextGuards ==
    \/ \E a \in GuardActors, w \in DOMAIN wishlists, b \in GuardBodies :
            AddProductLoad("r1", a, w, b)
    \/ AddProductInsert("r1")
    \/ AddProductTotal("r1")
    \/ AddProductSave("r1")
    \/ \E a \in GuardActors, p \in DOMAIN products, b \in GuardBodies :
            UpdateProductLoad("r1", a, p, b)
    \/ UpdateProductApply("r1")
    \/ UpdateProductTotal("r1")
    \/ UpdateProductSave("r1")
    \/ \E a \in GuardActors, p \in DOMAIN products : DeleteProductLoad("r1", a, p)
    \/ \E ok \in BOOLEAN : DeleteProductImage("r1", ok)
    \/ DeleteProductTotal("r1")
    \/ DeleteProductSave("r1")
    \/ DeleteProductRemove("r1")
    \/ \E a \in GuardActors, p \in DOMAIN products, b \in GuardBodies :
            AddCommentLoad("r1", a, p, b)
    \/ AddCommentSave("r1")
    \/ \E a \in GuardActors, p \in DOMAIN products, b \in GuardBodies :
            AddReactionLoad("r1", a, p, b)
    \/ AddReactionSave("r1")
    \/ \E a \in GuardActors, w \in DOMAIN wishlists, b \in GuardBodies, c \in Codes :
            UpdateWishlistLoad("r1", a, w, b, c)
    \/ UpdateWishlistApply("r1")
    \/ \E a \in Users, w \in DOMAIN wishlists : DeleteWishlistLoad("r1", a, w)
    \/ DeleteWishlistProducts("r1")
    \/ DeleteWishlistRemove("r1")
    \/ \E a \in GuardActors, w \in DOMAIN wishlists : GenerateInviteLoad("r1", a, w, "c1")
    \/ GenerateInviteSave("r1")

SpecGuards == InitGuards /\ [][NextGuards]_vars

----------------------------------------------------------------------------
(* SpecPut: comments and PUT /api/products/:id, one request at a time, on
   the private wishlist of u1 with the editor u2.  The PUT bodies carry a
   price, a comments array (empty, or one forged comment), the wishlist and
   addedBy keys at top level, and the same two keys under "$set". *)

InitPut == Seed(Collaborator("editor"), "u1", FALSE)

PutBodies ==
    {[NoBody EXCEPT !.price = <<25>>],
     [NoBody EXCEPT !.comments = <<<<>>>>],
     [NoBody EXCEPT !.comments = <<<<[user |-> "u1", text |-> "forged"]>>>>],
     [NoBody EXCEPT !.wishlist = <<2>>, !.addedBy = <<"u3">>],
     [NoBody EXCEPT !.setWishlist = <<2>>],
     [NoBody EXCEPT !.setAddedBy = <<"u3">>]}

NextPut ==
    \/ \E a \in Users, p \in KnownP, b \in CommentBodies : AddCommentLoad("r1", a, p, b)
    \/ AddCommentSave("r1")
    \/ \E a \in Users, p \in KnownP, b \in PutBodies : UpdateProductLoad("r1", a, p, b)
    \/ UpdateProductApply("r1")
    \/ UpdateProductTotal("r1")
    \/ UpdateProductSave("r1")

SpecPut == InitPut /\ [][NextPut]_vars

----------------------------------------------------------------------------
(* SpecSocket: three sockets connect, join and leave the room of wishlist
   w1, disconnect, and emit the five events with a payload whose wishlistId
   is w1 or any string a client may send, a socket id among them. *)

InitSocket == Seed(<<>>, "u1", FALSE)

Payloads == {[wishlistId |-> x] : x \in WishlistRooms \cup SocketIds}

NextSocket ==
    \E s \in SocketIds :
        \/ Connection(s)
        \/ Disconnect(s)
        \/ \E w \in WishlistRooms : JoinWishlist(s, w)
        \/ \E w \in WishlistRooms : LeaveWishlist(s, w)
        \/ \E ev \in Events, d \in Payloads : Relay(s, ev, d)

SpecSocket == InitSocket /\ [][NextSocket]_vars

----------------------------------------------------------------------------
(* SpecVisibility: create and PUT only (no generate-invite), one request
   at a time, starting from the private wishlist of u1 that holds no invite
   code. *)

InitVisibility == Seed(<<>>, "u1", FALSE)

NextVisibility ==
    \/ \E a \in Users, b \in CodeBodies, c \in Codes : CreateWishlist("r1", a, b, c)
    \/ \E a \in Users, w \in KnownW, b \in CodeBodies, c \in Codes :
            UpdateWishlistLoad("r1", a, w, b, c)
    \/ UpdateWishlistApply("r1")

SpecVisibility == InitVisibility /\ [][NextVisibility]_vars

----------------------------------------------------------------------------
(* SpecHeal: the operations that touch a wishlist, one request at a time,
   starting from a stale total: product 1 has the price 25 that a PUT wrote
   with findByIdAndUpdate, and the wishlist still has the total 10 because
   the server stopped before that request's wishlist.save(); the wishlist
   holds the invite code c1. *)

InitHeal ==
    /\ wishlists = (1 :> [NoWishlist EXCEPT !.title = "t1", !.owner = "u1",
                                            !.products = <<1>>, !.inviteCode = <<"c1">>,
                                            !.totalValue = 10])
    /\ products = (1 :> [NoProduct EXCEPT !.wishlist = 1, !.addedBy = "u1", !.price = <<25>>])
    /\ images = {}
    /\ ctr = [w |-> 1, p |-> 1, newW |-> 0, newP |-> 0]
    /\ reqs = [r \in Slots |-> Idle]
    /\ sockets = NoSockets

HealBodies == {[NoBody EXCEPT !.title = <<"t2">>, !.price = <<10>>]}

NextHeal ==
    \/ GetWishlist("r1", "u1", 1)
    \/ \E b \in HealBodies : UpdateWishlistLoad("r1", "u1", 1, b, "c2")
    \/ UpdateWishlistApply("r1")
    \/ \E a \in {"u2", "u3"} : JoinLoad("r1", a, "c1")
    \/ JoinSave("r1")
    \/ GenerateInviteLoad("r1", "u1", 1, "c1")
    \/ GenerateInviteSave("r1")
    \/ \E b \in HealBodies : AddProductLoad("r1", "u1", 1, b)
    \/ AddProductInsert("r1")
    \/ AddProductTotal("r1")
    \/ AddProductSave("r1")
    \/ \E p \in DOMAIN products, b \in HealBodies : UpdateProductLoad("r1", "u1", p, b)
    \/ UpdateProductApply("r1")
    \/ UpdateProductTotal("r1")
    \/ UpdateProductSave("r1")
    \/ \E p \in DOMAIN products : DeleteProductLoad("r1", "u1", p)
    \/ \E ok \in BOOLEAN : DeleteProductImage("r1", ok)
    \/ DeleteProductTotal("r1")
    \/ DeleteProductSave("r1")
    \/ DeleteProductRemove("r1")

SpecHeal == InitHeal /\ [][NextHeal]_vars

----------------------------------------------------------------------------
(* SpecTotalRace: two requests in flight at a time; the owner adds, updates
   and deletes products of the wishlist holding product 1 (price 10) and
   product 2 (no price). *)

RaceBodies == {[NoBody EXCEPT !.price = <<25>>]}

NextTotalRace ==
    \E r \in Slots :
        \/ \E b \in RaceBodies : AddProductLoad(r, "u1", 1, b)
        \/ AddProductInsert(r)
        \/ AddProductTotal(r)
        \/ AddProductSave(r)
        \/ \E p \in DOMAIN products, b \in RaceBodies : UpdateProductLoad(r, "u1", p, b)
        \/ UpdateProductApply(r)
        \/ UpdateProductTotal(r)
        \/ UpdateProductSave(r)
        \/ \E p \in DOMAIN products : DeleteProductLoad(r, "u1", p)
        \/ \E ok \in BOOLEAN : DeleteProductImage(r, ok)
        \/ DeleteProductTotal(r)
        \/ DeleteProductSave(r)
        \/ DeleteProductRemove(r)

SpecTotalRace == InitTotal /\ [][NextTotalRace]_vars

----------------------------------------------------------------------------
(* SpecRefRace: two requests in flight at a time; the owner adds products
   to the wishlist, deletes products of it, and deletes the wishlist. *)

InitRefRace == Seed(<<>>, "u1", FALSE)

NextRefRace ==
    \E r \in Slots :
        \/ \E w \in KnownW, b \in RaceBodies : AddProductLoad(r, "u1", w, b)
        \/ AddProductInsert(r)
        \/ AddProductTotal(r)
        \/ AddProductSave(r)
        \/ \E p \in DOMAIN products : DeleteProductLoad(r, "u1", p)
        \/ \E ok \in BOOLEAN : DeleteProductImage(r, ok)
        \/ DeleteProductTotal(r)
        \/ DeleteProductSave(r)
        \/ DeleteProductRemove(r)
        \/ \E w \in DOMAIN wishlists : DeleteWishlistLoad(r, "u1", w)
        \/ DeleteWishlistProducts(r)
        \/ DeleteWishlistRemove(r)

SpecRefRace == InitRefRace /\ [][NextRefRace]_vars

----------------------------------------------------------------------------
(* SpecReactionRace: two requests in flight at a time; u1 and u2 add and
   remove their reactions on product 1, which starts with no reaction, or
   with the heart of u2, or with the hearts of both. *)

InitReactionRace ==
    \E reactions \in {<<>>, <<[user |-> "u2", emoji |-> "heart"]>>,
                      <<[user |-> "u1", emoji |-> "heart"],
                        [user |-> "u2", emoji |-> "heart"]>>} :
        SeedWith(Collaborator("editor"), "u1", FALSE, reactions)

RaceReactionBodies == {[NoBody EXCEPT !.emoji = <<x>>] : x \in Emojis}

NextReactionRace ==
    \E r \in Slots :
        \/ \E a \in {"u1", "u2"}, b \in RaceReactionBodies : AddReactionLoad(r, a, 1, b)
        \/ AddReactionSave(r)
        \/ \E a \in {"u1", "u2"} : RemoveReactionLoad(r, a, 1)
        \/ RemoveReactionSave(r)

SpecReactionRace == InitReactionRace /\ [][NextReactionRace]_vars

----------------------------------------------------------------------------
(* SpecCollaborators: every route that writes a wishlist, one request at a
   time, starting from the public wishlist of u1 with one product and no
   collaborator: the owner updates it, generates invite codes, writes
   products and deletes it, u2 creates a wishlist, u2 and u3 join. *)

InitCollaborators == Seed(<<>>, "u1", TRUE)

CollaboratorBodies ==
    {[NoBody EXCEPT !.title = <<"t2">>, !.isPublic = <<TRUE>>, !.price = <<25>>]}

NextCollaborators ==
    \/ \E b \in CollaboratorBodies : CreateWishlist("r1", "u2", b, "c2")
    \/ \E b \in CollaboratorBodies : UpdateWishlistLoad("r1", "u1", 1, b, "c1")
    \/ UpdateWishlistApply("r1")
    \/ GenerateInviteLoad("r1", "u1", 1, "c1")
    \/ GenerateInviteSave("r1")
    \/ \E a \in {"u2", "u3"} : JoinLoad("r1", a, "c1")
    \/ JoinSave("r1")
    \/ \E b \in CollaboratorBodies : AddProductLoad("r1", "u1", 1, b)
    \/ AddProductInsert("r1")
    \/ AddProductTotal("r1")
    \/ AddProductSave("r1")
    \/ \E b \in CollaboratorBodies : UpdateProductLoad("r1", "u1", 1, b)
    \/ UpdateProductApply("r1")
    \/ UpdateProductTotal("r1")
    \/ UpdateProductSave("r1")
    \/ DeleteProductLoad("r1", "u1", 1)
    \/ \E ok \in BOOLEAN : DeleteProductImage("r1", ok)
    \/ DeleteProductTotal("r1")
    \/ DeleteProductSave("r1")
    \/ DeleteProductRemove("r1")
    \/ DeleteWishlistLoad("r1", "u1", 1)
    \/ DeleteWishlistProducts("r1")
    \/ DeleteWishlistRemove("r1")

SpecCollaborators == InitCollaborators /\ [][NextCollaborators]_vars

----------------------------------------------------------------------------
(* SpecReaction: add-reaction calls, one request at a time, on a product
   that already holds the heart reaction of u1; the calls carry each of the
   two allowed emojis, one outside the enum, or none. *)

InitReaction ==
    \E role \in Roles, pub \in BOOLEAN :
        SeedWith(Collaborator(role), "u1", pub, <<[user |-> "u1", emoji |-> "heart"]>>)

AllReactionBodies ==
    {[NoBody EXCEPT !.emoji = e] : e \in {<<>>, <<BadEmoji>>} \cup {<<x>> : x \in Emojis}}

NextReaction ==
    \/ \E a \in Users, p \in KnownP, b \in AllReactionBodies : AddReactionLoad("r1", a, p, b)
    \/ AddReactionSave("r1")

SpecReaction == InitReaction /\ [][NextReaction]_vars

----------------------------------------------------------------------------
(* SpecJoinRace: two requests in flight at a time; the owner generates
   invite codes and the users join with them. *)

InitJoinRace == Seed(<<>>, "u1", TRUE)

NextJoinRace ==
    \E r \in Slots :
        \/ \E c \in Codes : GenerateInviteLoad(r, "u1", 1, c)
        \/ GenerateInviteSave(r)
        \/ \E a \in Users, c \in Codes : JoinLoad(r, a, c)
        \/ JoinSave(r)

SpecJoinRace == InitJoinRace /\ [][NextJoinRace]_vars

----------------------------------------------------------------------------
(* SpecDeleteRace: two requests in flight at a time; products are added to
   the wishlist while the wishlist is deleted. *)

InitDeleteRace == Seed(Collaborator("editor"), "u1", FALSE)

NextDeleteRace ==
    \E r \in Slots :
        \/ \E a \in Users, w \in KnownW, b \in AddBodies : AddProductLoad(r, a, w, b)
        \/ AddProductInsert(r)
        \/ AddProductTotal(r)
        \/ AddProductSave(r)
        \/ \E a \in Users, w \in KnownW : DeleteWishlistLoad(r, a, w)
        \/ DeleteWishlistProducts(r)
        \/ DeleteWishlistRemove(r)

SpecDeleteRace == InitDeleteRace /\ [][NextDeleteRace]_vars

----------------------------------------------------------------------------
(* Properties *)

(* Slot r takes a new request in this step: its handler runs from the
   arrival to its first await. *)
Arrives(r) == reqs[r].pc \in {"idle", "done"} /\ reqs'[r] # reqs[r]

ViewOps == {"getWishlist", "getProducts", "addComment", "addReaction"}

(* The stored wishlist a view-gated request is about, 0 when there is none. *)
ViewTarget(q) ==
    IF q.op \in {"getWishlist", "getProducts"}
    THEN (IF q.wid \in DOMAIN wishlists THEN q.wid ELSE 0)
    ELSE IF q.pid \in DOMAIN products /\ products[q.pid].wishlist \in DOMAIN wishlists
         THEN products[q.pid].wishlist
         ELSE 0

(* canView of the specification. *)
CanView(wl, a) ==
    \/ a = wl.owner
    \/ a \in {wl.collaborators[i].user : i \in DOMAIN wl.collaborators}
    \/ wl.isPublic = TRUE

ViewPermitted(q) ==
    \/ q.op \in {"getWishlist", "getProducts"} /\ q.pc = "done" /\ q.status = 200
    \/ q.op = "addComment" /\ q.pc = "saveComment"
    \/ q.op = "addReaction" /\ q.pc = "saveReaction"

(* C1: a view-gated request (GET wishlist, GET products, add comment, add
   reaction) on a stored wishlist W by actor A passes the access check iff A
   is W's owner, a collaborator of W in any role, or W is public; otherwise
   it is answered 403. *)
C1_ViewGate ==
    [][\A r \in Slots :
          Arrives(r) /\ reqs'[r].op \in ViewOps /\ ViewTarget(reqs'[r]) # 0 =>
              IF CanView(wishlists[ViewTarget(reqs'[r])], reqs'[r].actor)
              THEN ViewPermitted(reqs'[r])
              ELSE reqs'[r].pc = "done" /\ reqs'[r].status = 403]_vars

(* C1 witness: on a private wishlist the viewer-role collaborator u2 has
   commented and the non-member u3 has just been refused the wishlist. *)
C1_Witness ==
    /\ 1 \in DOMAIN wishlists /\ ~wishlists[1].isPublic
    /\ wishlists[1].collaborators = <<[user |-> "u2", role |-> "viewer"]>>
    /\ \E i \in DOMAIN products[1].comments : products[1].comments[i].user = "u2"
    /\ reqs["r1"].op = "getWishlist" /\ reqs["r1"].actor = "u3"
    /\ reqs["r1"].wid = 1 /\ reqs["r1"].status = 403

(* The stored product a product request is about and its stored wishlist:
   TRUE when both are there. *)
ProductTarget(q) ==
    q.pid \in DOMAIN products /\ products[q.pid].wishlist \in DOMAIN wishlists

Finishes(r, st) == reqs[r].pc # "done" /\ reqs'[r].pc = "done" /\ reqs'[r].status = st

(* canDeleteProduct of the specification. *)
CanDeleteProduct(wl, prod, a) ==
    \/ a = wl.owner
    \/ a = prod.addedBy
    \/ \E i \in DOMAIN wl.collaborators :
          wl.collaborators[i] = [user |-> a, role |-> "admin"]

(* C2: DELETE product by A on stored product P of wishlist W passes the
   check iff A is W's owner, P's creator or an admin-role collaborator of W,
   and is answered 403 otherwise (so an editor who did not create P is
   refused); a delete answered 200 has removed the product. *)
C2_DeleteGate ==
    [][\A r \in Slots :
          /\ Arrives(r) /\ reqs'[r].op = "deleteProduct" /\ ProductTarget(reqs'[r]) =>
                IF CanDeleteProduct(wishlists[products[reqs'[r].pid].wishlist],
                                    products[reqs'[r].pid], reqs'[r].actor)
                THEN reqs'[r].pc = "deleteImage"
                ELSE reqs'[r].pc = "done" /\ reqs'[r].status = 403
          /\ reqs[r].op = "deleteProduct" /\ Finishes(r, 200) =>
                reqs[r].pid \notin DOMAIN products']_vars

(* C2 witness: the editor-role collaborator u2 has added product 2 and has
   just been refused the deletion of product 1, which u2 did not create. *)
C2_Witness ==
    /\ 1 \in DOMAIN wishlists
    /\ wishlists[1].collaborators = <<[user |-> "u2", role |-> "editor"]>>
    /\ 1 \in DOMAIN products /\ products[1].addedBy # "u2"
    /\ 2 \in DOMAIN products /\ products[2].addedBy = "u2"
    /\ reqs["r1"].op = "deleteProduct" /\ reqs["r1"].actor = "u2"
    /\ reqs["r1"].pid = 1 /\ reqs["r1"].status = 403

(* canAddOrEditProduct of the specification. *)
CanAddOrEditProduct(wl, a) ==
    \/ a = wl.owner
    \/ \E i \in DOMAIN wl.collaborators :
          wl.collaborators[i].user = a /\ wl.collaborators[i].role \in {"editor", "admin"}

(* C3: POST product on stored wishlist W by A passes the check iff A is W's
   owner or an editor- or admin-role collaborator (public or not), PUT
   product on stored product P iff that holds or A is P's creator; the
   request is answered 403 otherwise. *)
C3_AddEditGate ==
    [][\A r \in Slots :
          /\ Arrives(r) /\ reqs'[r].op = "addProduct" /\ reqs'[r].wid \in DOMAIN wishlists =>
                IF CanAddOrEditProduct(wishlists[reqs'[r].wid], reqs'[r].actor)
                THEN reqs'[r].pc = "insertProduct"
                ELSE reqs'[r].pc = "done" /\ reqs'[r].status = 403
          /\ Arrives(r) /\ reqs'[r].op = "updateProduct" /\ ProductTarget(reqs'[r]) =>
                IF \/ CanAddOrEditProduct(wishlists[products[reqs'[r].pid].wishlist],
                                          reqs'[r].actor)
                   \/ reqs'[r].actor = products[reqs'[r].pid].addedBy
                THEN reqs'[r].pc = "updateProduct"
                ELSE reqs'[r].pc = "done" /\ reqs'[r].status = 403]_vars

(* C3 witness: on a public wishlist the viewer-role collaborator u2 has
   been refused an add, and the stored product, created by the non-member
   u3, carries the price u3's PUT set. *)
C3_Witness ==
    /\ 1 \in DOMAIN wishlists /\ wishlists[1].isPublic
    /\ wishlists[1].collaborators = <<[user |-> "u2", role |-> "viewer"]>>
    /\ 1 \in DOMAIN products /\ products[1].addedBy = "u3" /\ products[1].price = <<25>>
    /\ reqs["r1"].op = "addProduct" /\ reqs["r1"].actor = "u2"
    /\ reqs["r1"].wid = 1 /\ reqs["r1"].status = 403

RECURSIVE SumOfPrices(_)
SumOfPrices(ids) ==
    IF ids = <<>> THEN 0
    ELSE (IF products[Head(ids)].price = <<>> THEN 0 ELSE products[Head(ids)].price[1])
         + SumOfPrices(Tail(ids))

ProductWrites == {"addProduct", "updateProduct", "deleteProduct"}

(* C8: when an add-, update- or delete-product request has completed
   successfully (requests run one at a time), the stored totalValue of its
   wishlist is the sum of the prices of the products in the wishlist's
   stored products list, a product without a price counting 0. *)
C8_TotalAfterWrite ==
    \A r \in Slots :
        reqs[r].pc = "done" /\ reqs[r].op \in ProductWrites /\ reqs[r].status \in {200, 201} =>
            /\ reqs[r].wid \in DOMAIN wishlists
            /\ Range(wishlists[reqs[r].wid].products) \subseteq DOMAIN products
            /\ wishlists[reqs[r].wid].totalValue = SumOfPrices(wishlists[reqs[r].wid].products)

(* C8 witness: the products priced 10, none and 25 give 35 after the add
   of the third. *)
C8_Witness ==
    /\ reqs["r1"].op = "addProduct" /\ reqs["r1"].pc = "done" /\ reqs["r1"].status = 201
    /\ wishlists[1].products = <<1, 2, 3>>
    /\ products[1].price = <<10>> /\ products[2].price = <<>> /\ products[3].price = <<25>>
    /\ wishlists[1].totalValue = 35

(* C8, the second half of the example: after the deletion of the product
   priced 25 the total is 10 again. *)
C8_WitnessDelete ==
    /\ reqs["r1"].op = "deleteProduct" /\ reqs["r1"].pc = "done" /\ reqs["r1"].status = 200
    /\ reqs["r1"].pid = 3 /\ wishlists[1].products = <<1, 2>>
    /\ products[1].price = <<10>> /\ products[2].price = <<>>
    /\ wishlists[1].totalValue = 10

(* canMutateWishlist and canManageInvite of the specification. *)
CanManageWishlist(wl, a) ==
    \/ a = wl.owner
    \/ \E i \in DOMAIN wl.collaborators :
          wl.collaborators[i] = [user |-> a, role |-> "admin"]

(* C4: PUT wishlist and POST invite on a stored wishlist pass their check
   for the same actors, the owner and the admin-role collaborators; every
   other actor gets 403 from both. *)
C4_MutateInviteGate ==
    [][\A r \in Slots :
          Arrives(r) /\ reqs'[r].op \in {"updateWishlist", "generateInvite"}
                     /\ reqs'[r].wid \in DOMAIN wishlists =>
              IF CanManageWishlist(wishlists[reqs'[r].wid], reqs'[r].actor)
              THEN reqs'[r].pc = (IF reqs'[r].op = "updateWishlist"
                                  THEN "update" ELSE "inviteSave")
              ELSE reqs'[r].pc = "done" /\ reqs'[r].status = 403]_vars

(* C4 witness: the admin-role collaborator u2 has made the wishlist public
   by a PUT, which gave it an invite code. *)
C4_Witness ==
    /\ 1 \in DOMAIN wishlists
    /\ wishlists[1].collaborators = <<[user |-> "u2", role |-> "admin"]>>
    /\ wishlists[1].isPublic /\ wishlists[1].inviteCode # <<>>
    /\ reqs["r1"].op = "updateWishlist" /\ reqs["r1"].actor = "u2"
    /\ reqs["r1"].body.isPublic = <<TRUE>> /\ reqs["r1"].status = 200

(* C5: DELETE wishlist on a stored wishlist passes its check iff the actor
   is the owner; every other actor is answered 403 and the step leaves the
   stored wishlists and products as they were.  A delete answered 200 has
   removed the wishlist and every product of it. *)
C5_DeleteWishlistGate ==
    [][\A r \in Slots :
          /\ Arrives(r) /\ reqs'[r].op = "deleteWishlist"
                        /\ reqs'[r].wid \in DOMAIN wishlists =>
                IF reqs'[r].actor = wishlists[reqs'[r].wid].owner
                THEN reqs'[r].pc = "deleteProducts"
                ELSE /\ reqs'[r].pc = "done" /\ reqs'[r].status = 403
                     /\ wishlists' = wishlists /\ products' = products
          /\ reqs[r].op = "deleteWishlist" /\ Finishes(r, 200) =>
                /\ reqs[r].wid \notin DOMAIN wishlists'
                /\ \A p \in DOMAIN products' : products'[p].wishlist # reqs[r].wid]_vars

(* C5 witness: the admin-role collaborator u2 has been refused the
   deletion; the wishlist and its product are stored. *)
C5_Witness ==
    /\ 1 \in DOMAIN wishlists /\ 1 \in DOMAIN products
    /\ wishlists[1].collaborators = <<[user |-> "u2", role |-> "admin"]>>
    /\ wishlists[1].products = <<1>> /\ products[1].wishlist = 1
    /\ reqs["r1"].op = "deleteWishlist" /\ reqs["r1"].actor = "u2"
    /\ reqs["r1"].wid = 1 /\ reqs["r1"].status = 403

Holders(c) == {w \in DOMAIN wishlists : wishlists[w].inviteCode = c}

IsMember(wl, a) ==
    a = wl.owner \/ a \in {wl.collaborators[i].user : i \in DOMAIN wl.collaborators}

(* C6: a join (requests run one at a time) with a code no stored wishlist
   holds is answered 404 and changes nothing; by the owner or a collaborator
   of the wishlist holding the code it is answered 400 and changes nothing;
   by any other actor it appends exactly the entry {actor, editor} to that
   wishlist's collaborators and is answered 200. *)
C6_Join ==
    [][\A r \in Slots :
          /\ Arrives(r) /\ reqs'[r].op = "join" =>
                IF Holders(reqs'[r].code) = {}
                THEN /\ reqs'[r].pc = "done" /\ reqs'[r].status = 404
                     /\ wishlists' = wishlists /\ products' = products
                ELSE /\ reqs'[r].wid \in Holders(reqs'[r].code)
                     /\ wishlists' = wishlists /\ products' = products
                     /\ IF IsMember(wishlists[reqs'[r].wid], reqs'[r].actor)
                        THEN reqs'[r].pc = "done" /\ reqs'[r].status = 400
                        ELSE reqs'[r].pc = "joinSave"
          /\ reqs[r].op = "join" /\ reqs[r].pc = "joinSave" /\ reqs'[r] # reqs[r] =>
                /\ Finishes(r, 200)
                /\ wishlists' = [wishlists EXCEPT ![reqs[r].wid].collaborators =
                        Append(@, [user |-> reqs[r].actor, role |-> "editor"])]]_vars

(* C6 witness: u3 and then u2 have joined with the same code, and u2's
   second join with it has been answered 400. *)
C6_Witness ==
    /\ 1 \in DOMAIN wishlists
    /\ wishlists[1].collaborators =
            <<[user |-> "u3", role |-> "editor"], [user |-> "u2", role |-> "editor"]>>
    /\ reqs["r1"].op = "join" /\ reqs["r1"].actor = "u2"
    /\ reqs["r1"].code = wishlists[1].inviteCode /\ reqs["r1"].status = 400

(* C7: in every wishlist no user is in two collaborator entries and the
   owner is in none, also when joins overlap. *)
C7_CollaboratorsUnique ==
    \A w \in DOMAIN wishlists :
        LET cs == wishlists[w].collaborators
        IN /\ \A i, j \in DOMAIN cs : cs[i].user = cs[j].user => i = j
           /\ \A i \in DOMAIN cs : cs[i].user # wishlists[w].owner

ReactionsOf(reactions, a) == {i \in DOMAIN reactions : reactions[i].user = a}

OthersReactions(reactions, a) == SelectSeq(reactions, LAMBDA x : x.user # a)

(* C9: an add-reaction call (requests run one at a time) by an actor who
   may view the product's wishlist, with an emoji of the enum, is accepted;
   once it is answered 201 the product holds exactly one reaction by the
   actor, it is the last entry and carries the call's emoji, and the
   reactions of the other users are as they were.  A call that is answered
   otherwise leaves the reactions as they were. *)
C9_ReactionReplaced ==
    [][\A r \in Slots :
          /\ Arrives(r) /\ reqs'[r].op = "addReaction"
                        /\ ViewTarget(reqs'[r]) # 0
                        /\ CanView(wishlists[ViewTarget(reqs'[r])], reqs'[r].actor)
                        /\ EmojiValid(reqs'[r].body.emoji) =>
                reqs'[r].pc = "saveReaction"
          /\ reqs[r].op = "addReaction" /\ reqs[r].pc = "saveReaction"
                                       /\ reqs'[r] # reqs[r] =>
                LET a == reqs[r].actor
                    old == products[reqs[r].pid].reactions
                    new == products'[reqs[r].pid].reactions
                IN IF EmojiValid(reqs[r].body.emoji)
                   THEN /\ Finishes(r, 201)
                        /\ Cardinality(ReactionsOf(new, a)) = 1
                        /\ new[Len(new)] = [user |-> a, emoji |-> reqs[r].body.emoji[1]]
                        /\ OthersReactions(new, a) = OthersReactions(old, a)
                   ELSE reqs'[r].status # 201 /\ new = old
          /\ reqs'[r].op = "addReaction" /\ reqs'[r].pc = "done"
                                        /\ reqs'[r].status # 201 =>
                products' = products]_vars

(* C9 witness: u1, whose heart was the product's only reaction, has called
   add-reaction with thumbsup; the product holds that one reaction. *)
C9_Witness ==
    /\ products[1].reactions = <<[user |-> "u1", emoji |-> "thumbsup"]>>
    /\ reqs["r1"].op = "addReaction" /\ reqs["r1"].actor = "u1"
    /\ reqs["r1"].body.emoji = <<"thumbsup">> /\ reqs["r1"].status = 201

(* C10: no stored product references a wishlist that has been deleted,
   whatever requests overlapped the delete. *)
C10_NoProductOfDeletedWishlist ==
    \A w \in 1..ctr.w :
        w \notin DOMAIN wishlists =>
            \A p \in DOMAIN products : products[p].wishlist # w

(* C11: no two stored wishlists hold the same invite code; a create, PUT or
   generate-invite that drew a code held by another wishlist is answered
   500 and leaves every stored invite code as it was. *)
C11_CodesUnique ==
    /\ [](\A w, x \in DOMAIN wishlists :
            wishlists[w].inviteCode # <<>> /\ wishlists[w].inviteCode = wishlists[x].inviteCode
                => w = x)
    /\ [][\A r \in Slots :
            /\ reqs'[r] # reqs[r] /\ reqs'[r].pc = "done"
               /\ reqs'[r].op \in {"createWishlist", "updateWishlist", "generateInvite"}
               /\ reqs'[r].code # <<>>
               /\ (\E x \in DOMAIN wishlists \ {reqs'[r].wid} :
                        wishlists[x].inviteCode = reqs'[r].code) =>
                    /\ reqs'[r].status = 500
                    /\ DOMAIN wishlists' = DOMAIN wishlists
                    /\ \A x \in DOMAIN wishlists :
                            wishlists'[x].inviteCode = wishlists[x].inviteCode]_vars

(* C11 witness: u2's generate-invite on wishlist 2 drew c1, the code of
   wishlist 1, and was answered 500; wishlist 2 then got c2. *)
C11_Witness ==
    /\ {1, 2} \subseteq DOMAIN wishlists
    /\ wishlists[1].inviteCode = <<"c1">> /\ wishlists[2].inviteCode = <<"c2">>
    /\ \E r \in Slots :
            /\ reqs[r].op = "generateInvite" /\ reqs[r].wid = 2
            /\ reqs[r].code = <<"c1">> /\ reqs[r].status = 500

GuardedOps ==
    {"addProduct", "updateProduct", "deleteProduct", "addComment", "addReaction",
     "updateWishlist", "deleteWishlist", "generateInvite"}

(* The wishlist a guarded request is checked against, 0 when the request
   names no stored wishlist or product. *)
GuardTarget(q) ==
    IF q.op \in {"addProduct", "updateWishlist", "deleteWishlist", "generateInvite"}
    THEN (IF q.wid \in DOMAIN wishlists THEN q.wid ELSE 0)
    ELSE IF ProductTarget(q) THEN products[q.pid].wishlist ELSE 0

(* The authorization predicates of the specification, by operation. *)
Authorized(q) ==
    LET wl == wishlists[GuardTarget(q)]
        a == q.actor
    IN CASE q.op = "addProduct" -> CanAddOrEditProduct(wl, a)
         [] q.op = "updateProduct" ->
                CanAddOrEditProduct(wl, a) \/ a = products[q.pid].addedBy
         [] q.op = "deleteProduct" -> CanDeleteProduct(wl, products[q.pid], a)
         [] q.op \in {"addComment", "addReaction"} -> CanView(wl, a)
         [] q.op \in {"updateWishlist", "generateInvite"} -> CanManageWishlist(wl, a)
         [] q.op = "deleteWishlist" -> a = wl.owner

(* C12: a guarded request that its authorization predicate denies is
   answered 403 in the step that checks it, and that step leaves the
   wishlists (totalValue included), the products and the stored images as
   they were; a request answered 403 has written nothing in any step. *)
C12_DeniedAppliesNothing ==
    [][\A r \in Slots :
          /\ Arrives(r) /\ reqs'[r].op \in GuardedOps /\ GuardTarget(reqs'[r]) # 0
                        /\ ~Authorized(reqs'[r]) =>
                /\ reqs'[r].pc = "done" /\ reqs'[r].status = 403
                /\ wishlists' = wishlists /\ products' = products /\ images' = images
          /\ reqs'[r] # reqs[r] /\ reqs'[r].pc = "done" /\ reqs'[r].status = 403 =>
                /\ Arrives(r)
                /\ wishlists' = wishlists /\ products' = products /\ images' = images]_vars

(* C12 witness: the non-member u3 has been refused the deletion of product
   1 on the private wishlist; product, image, wishlist and total are as
   stored at the start. *)
C12_Witness ==
    /\ reqs["r1"].op = "deleteProduct" /\ reqs["r1"].actor = "u3"
    /\ reqs["r1"].pid = 1 /\ reqs["r1"].status = 403
    /\ 1 \in DOMAIN wishlists /\ ~wishlists[1].isPublic
    /\ wishlists[1].products = <<1>> /\ wishlists[1].totalValue = 10
    /\ 1 \in DOMAIN products /\ products[1].price = <<10>>
    /\ images = {"img1"}

IsPrefix(s, t) == Len(s) <= Len(t) /\ SubSeq(t, 1, Len(s)) = s

(* C13: the comment list of a product is append-only: every step that
   keeps the product stored leaves its earlier comment list as a prefix of
   the later one, whatever the body of a PUT; an add-comment answered 201
   appends exactly one comment by the actor. *)
C13_CommentsAppendOnly ==
    [][/\ \A p \in DOMAIN products \cap DOMAIN products' :
                IsPrefix(products[p].comments, products'[p].comments)
       /\ \A r \in Slots :
            reqs[r].op = "addComment" /\ Finishes(r, 201) =>
                /\ Len(products'[reqs[r].pid].comments)
                        = Len(products[reqs[r].pid].comments) + 1
                /\ products'[reqs[r].pid].comments[Len(products'[reqs[r].pid].comments)].user
                        = reqs[r].actor]_vars

(* C17: no step changes the wishlist or the creator of a stored product,
   whatever the body of a PUT. *)
C17_WishlistAndCreatorImmutable ==
    [][\A p \in DOMAIN products \cap DOMAIN products' :
            /\ products'[p].wishlist = products[p].wishlist
            /\ products'[p].addedBy = products[p].addedBy]_vars

(* A socket is in the room of a wishlist id when it has sent join-wishlist
   for it and not leave-wishlist since; the clients send join-wishlist and
   leave-wishlist with wishlist ids only. *)
InWishlistRoom(t, w) ==
    t \in sockets.connected /\ w \in WishlistRooms /\ w \in sockets.rooms[t]

(* C14: an event emitted by socket s with payload d is relayed, with the
   same name and payload, to exactly the other sockets that are in room
   d.wishlistId. *)
C14_RelayToRoomOnly ==
    [][sockets'.last # sockets.last =>
            /\ sockets'.last.from \in sockets.connected
            /\ sockets'.last.to =
                    {t \in SocketIds \ {sockets'.last.from} :
                        InWishlistRoom(t, sockets'.last.data.wishlistId)}]_vars

(* C15: after any sequence of create and update operations (generate-invite
   never performed), a wishlist that holds an invite code is public. *)
C15_CodeOnlyIfPublic ==
    \A w \in DOMAIN wishlists : wishlists[w].inviteCode # <<>> => wishlists[w].isPublic

HealingOps ==
    {"getWishlist", "updateWishlist", "join", "generateInvite"} \cup ProductWrites

(* C16: once a read or write operation that touches a wishlist (GET
   wishlist, PUT wishlist, join, generate invite, add, update or delete
   product) has completed successfully, the wishlist's totalValue, which
   the operation returned or persisted, is the sum of the prices of the
   products in its list. *)
C16_TotalHealed ==
    \A r \in Slots :
        /\ reqs[r].pc = "done" /\ reqs[r].op \in HealingOps
        /\ reqs[r].status \in {200, 201} /\ reqs[r].wid \in DOMAIN wishlists
        => /\ Range(wishlists[reqs[r].wid].products) \subseteq DOMAIN products
           /\ wishlists[reqs[r].wid].totalValue = SumOfPrices(wishlists[reqs[r].wid].products)

Quiet == \A r \in Slots : reqs[r].pc \in {"idle", "done"}

(* C18: whenever no request is in progress, the totalValue of every
   wishlist is the sum of the prices of the products in its list, also
   after product requests on it overlapped. *)
C18_TotalWhenQuiet ==
    Quiet => \A w \in DOMAIN wishlists :
                /\ Range(wishlists[w].products) \subseteq DOMAIN products
                /\ wishlists[w].totalValue = SumOfPrices(wishlists[w].products)

(* C19: whenever no request is in progress, for every wishlist id W and
   product id P: P is in the products list of the stored wishlist W iff a
   stored product has the id P and wishlist = W. *)
C19_ListMatchesProducts ==
    Quiet => \A w \in 1..ctr.w, p \in 1..ctr.p :
                (w \in DOMAIN wishlists /\ p \in Range(wishlists[w].products))
                    <=> (p \in DOMAIN products /\ products[p].wishlist = w)

ReactionsBy(reactions, b) == SelectSeq(reactions, LAMBDA x : x.user = b)

(* C20: the step in which an add-reaction or remove-reaction request of
   actor A writes (or fails to write) product P leaves the reactions of
   every other user B on P as they were, also when the requests of A and B
   overlap; so after A's request B's reaction is the one B last set. *)
C20_OthersReactionsKept ==
    [][\A r \in Slots :
          /\ reqs[r].pc \in {"saveReaction", "removeSave"} /\ reqs'[r] # reqs[r]
          /\ reqs[r].pid \in DOMAIN products
          => /\ reqs[r].pid \in DOMAIN products'
             /\ \A b \in Users \ {reqs[r].actor} :
                    ReactionsBy(products'[reqs[r].pid].reactions, b)
                        = ReactionsBy(products[reqs[r].pid].reactions, b)]_vars

(* C20 witness: the requests of u1 and u2 overlapped; u2 replaced its heart
   by thumbsup, u1's replacement was then refused (500) and u1's removal
   went through: u2's thumbsup is the product's only reaction. *)
C20_Witness ==
    /\ products[1].reactions = <<[user |-> "u2", emoji |-> "thumbsup"]>>
    /\ reqs["r1"].op = "removeReaction" /\ reqs["r1"].actor = "u1"
    /\ reqs["r1"].status = 200 /\ reqs["r1"].pc = "done"
    /\ reqs["r2"].op = "addReaction" /\ reqs["r2"].actor = "u1"
    /\ reqs["r2"].status = 500 /\ reqs["r2"].pc = "done"
    /\ products[1].__v = 2

(* C21: every collaborator entry has the role editor; a step changes the
   collaborators of a wishlist that stays stored only when it is the save
   of a join answered 200 on that wishlist, and then by appending the entry
   {actor, editor}; no step changes the owner of a wishlist that stays
   stored.  So a collaborator stays one, with the same role, until the
   wishlist is deleted. *)
C21_CollaboratorsOnlyByJoin ==
    /\ [](\A w \in DOMAIN wishlists :
            \A i \in DOMAIN wishlists[w].collaborators :
                wishlists[w].collaborators[i].role = "editor")
    /\ [][\A w \in DOMAIN wishlists \cap DOMAIN wishlists' :
            /\ wishlists'[w].owner = wishlists[w].owner
            /\ \/ wishlists'[w].collaborators = wishlists[w].collaborators
               \/ \E r \in Slots :
                    /\ reqs[r].op = "join" /\ reqs[r].wid = w /\ Finishes(r, 200)
                    /\ wishlists'[w].collaborators =
                            Append(wishlists[w].collaborators,
                                   [user |-> reqs[r].actor, role |-> "editor"])]_vars

(* C21 witness: u2 and u3 have joined wishlist 1, the owner has added a
   product (total 35) and has then renamed the wishlist by a PUT; the two
   entries are as the joins wrote them. *)
C21_Witness ==
    /\ 1 \in DOMAIN wishlists
    /\ wishlists[1].owner = "u1"
    /\ wishlists[1].collaborators =
            <<[user |-> "u2", role |-> "editor"], [user |-> "u3", role |-> "editor"]>>
    /\ wishlists[1].title = "t2" /\ wishlists[1].totalValue = 35
    /\ reqs["r1"].op = "updateWishlist" /\ reqs["r1"].status = 200

====
